---------------------------- MODULE Spec2Model ----------------------------
(***************************************************************************)
(* Model of the HTTP edge layer of bifrost's bifrost-http transport:       *)
(* ChainMiddlewares, CorsMiddleware, AdminAuthMiddleware and               *)
(* TransportInterceptorMiddleware of package handlers, and the UIHandler   *)
(* (serveDashboard, loginSubmit, logout).                                  *)
(*                                                                         *)
(* Strings are TLA+ strings; TLC evaluates Len, SubSeq, Tail and \o on     *)
(* them, so the Go string functions are computed character by character.   *)
(***************************************************************************)
EXTENDS Integers, Sequences, FiniteSets, TLC

VARIABLES
  config,               \* *lib.Config shared by the middlewares
  incoming,             \* the request as it arrived, never written
  req,                  \* ctx.Request: method, path, headers, cookies, body
  resp,                 \* ctx.Response: status, headers, body
  pc,                   \* position of the request in the handler under study
  nextCalls,            \* how many times next(ctx) has been invoked
  via,                  \* the return statement a middleware left through
  mws,                  \* ChainMiddlewares: the middlewares argument
  chained,              \* ChainMiddlewares: the handler it returned
  pos,                  \* the stage of chained that runs next
  log,                  \* side effects on ctx, in the order they happened
  plugins,              \* interceptor: the snapshot GetLoadedPlugins returned
  headers,              \* interceptor: local map headers
  requestBody,          \* interceptor: local map requestBody
  originalHeaderNames,  \* interceptor: local slice originalHeaderNames
  idx,                  \* interceptor: position of the range loop
  calls,                \* interceptor: one record per plugin invocation
  uiContent,            \* UIHandler.uiContent: the embedded bundle, path to bytes
  jar,                  \* the cookies the browser of a session holds
  gateLog,              \* a session: what the gate did with each request
  published,            \* the Config versions published so far, oldest first
  reads                 \* the Config fields one run has read, with their version

vars == <<config, incoming, req, resp, pc, nextCalls, via, mws, chained, pos, log,
          plugins, headers, requestBody, originalHeaderNames, idx, calls,
          uiContent, jar, gateLog, published, reads>>

---------------------------------------------------------------------------
(* Bounds of the model.                                                    *)

MaxMw == 3
MaxPlugins == 2
MaxSessionRequests == 2
MaxVersions == 2

---------------------------------------------------------------------------
(* Go's strings package, as far as the handlers use it.                    *)

Char(s, i) == SubSeq(s, i, i)

UpperChars == "ABCDEFGHIJKLMNOPQRSTUVWXYZ"
LowerChars == "abcdefghijklmnopqrstuvwxyz"
DigitChars == "0123456789"

InChars(c, set) == \E i \in 1..Len(set) : Char(set, i) = c

IsSpace(c) == c \in {" ", "\t", "\n", "\r"}

RECURSIVE TrimLeft(_)
TrimLeft(s) ==
  IF s # "" /\ IsSpace(Char(s, 1)) THEN TrimLeft(Tail(s)) ELSE s

RECURSIVE TrimRight(_)
TrimRight(s) ==
  IF s # "" /\ IsSpace(Char(s, Len(s)))
    THEN TrimRight(SubSeq(s, 1, Len(s) - 1))
    ELSE s

TrimSpace(s) == TrimRight(TrimLeft(s))

ToLowerChar(c) ==
  IF InChars(c, UpperChars)
    THEN Char(LowerChars, CHOOSE i \in 1..Len(UpperChars) : Char(UpperChars, i) = c)
    ELSE c

RECURSIVE ToLower(_)
ToLower(s) ==
  IF s = "" THEN "" ELSE ToLowerChar(Char(s, 1)) \o ToLower(Tail(s))

HasPrefix(s, prefix) ==
  Len(s) >= Len(prefix) /\ SubSeq(s, 1, Len(prefix)) = prefix

Contains(s, substr) ==
  \E i \in 1..(Len(s) - Len(substr) + 1) : SubSeq(s, i, i + Len(substr) - 1) = substr

EqualFold(s, t) == ToLower(s) = ToLower(t)

\* s[n:] of Go, n counted in bytes from 0.
SliceFrom(s, n) == SubSeq(s, n + 1, Len(s))

\* net/url.QueryEscape: unreserved characters stay, a space becomes "+",
\* every other byte becomes %XX.
EscapeChar(c) ==
  IF InChars(c, UpperChars) \/ InChars(c, LowerChars) \/ InChars(c, DigitChars)
       \/ c \in {"-", "_", ".", "~"}
    THEN c
    ELSE CASE c = " " -> "+"
           [] c = "/" -> "%2F"
           [] c = "?" -> "%3F"
           [] c = "&" -> "%26"
           [] c = "=" -> "%3D"
           [] c = ":" -> "%3A"
           [] c = "%" -> "%25"
           [] c = "+" -> "%2B"
           [] OTHER   -> "%XX"

RECURSIVE QueryEscape(_)
QueryEscape(s) ==
  IF s = "" THEN "" ELSE EscapeChar(Char(s, 1)) \o QueryEscape(Tail(s))

---------------------------------------------------------------------------
(* fasthttp status codes and the request and response of one ctx.          *)

StatusOK == 200
StatusFound == 302
StatusUnauthorized == 401
StatusForbidden == 403
StatusInternalServerError == 500

MethodGet == "GET"
MethodPost == "POST"

EmptyMap == [k \in {} |-> ""]

\* A response nothing has been written to.
FreshResponse == [status |-> 0, headers |-> EmptyMap, body |-> "", cookies |-> <<>>]

\* ctx.Request.Header.Peek(name): the first value stored under name, or "".
Peek(r, name) ==
  IF \E i \in 1..Len(r.headers) : r.headers[i][1] = name
    THEN r.headers[CHOOSE i \in 1..Len(r.headers) :
                     /\ r.headers[i][1] = name
                     /\ \A j \in 1..(i - 1) : r.headers[j][1] # name][2]
    ELSE ""

\* ctx.Request.Header.Cookie(name): the value of the cookie with that key.
Cookie(r, name) ==
  IF \E i \in 1..Len(r.cookies) : r.cookies[i][1] = name
    THEN r.cookies[CHOOSE i \in 1..Len(r.cookies) :
                     /\ r.cookies[i][1] = name
                     /\ \A j \in 1..(i - 1) : r.cookies[j][1] # name][2]
    ELSE ""

\* ctx.Response.Header.Set(key, value)
SetResponseHeader(rs, key, value) ==
  [rs EXCEPT !.headers =
     [k \in (DOMAIN rs.headers) \cup {key} |->
        IF k = key THEN value ELSE rs.headers[k]]]

\* ctx.SetStatusCode(code)
SetStatusCode(rs, code) == [rs EXCEPT !.status = code]

\* SendError(ctx, code, message, logger): the structured {status, message}
\* error body with the status code of the error kind.
SendError(rs, code, message) ==
  [SetResponseHeader(rs, "Content-Type", "application/json")
     EXCEPT !.status = code, !.body = message]

\* The defaults of the variables a specification does not use.
NoRequest == [method |-> "", path |-> "", uri |-> "", headers |-> <<>>,
              cookies |-> <<>>, body |-> ""]
NoConfig == [AdminSecret |-> "", AdminCookieName |-> "", AllowedOrigins |-> {},
             plugins |-> <<>>]

\* A Go map: nil, or a mapping of keys to values.
NilMap == [nil |-> TRUE, kv |-> EmptyMap]
MakeMap == [nil |-> FALSE, kv |-> EmptyMap]
GoMap(f) == [nil |-> FALSE, kv |-> f]

ChainIdle == mws = <<>> /\ chained = <<>> /\ pos = 0 /\ log = <<>>
PipeIdle ==
  /\ plugins = <<>> /\ headers = NilMap /\ requestBody = NilMap
  /\ originalHeaderNames = <<>> /\ idx = 0 /\ calls = <<>>

UIIdle == uiContent = EmptyMap
SessionIdle == jar = <<>> /\ gateLog = <<>>
SnapIdle == published = <<>> /\ reads = <<>>

chainVars == <<mws, chained, pos, log>>
pipeVars == <<plugins, headers, requestBody, originalHeaderNames, idx, calls>>
uiVars == <<uiContent>>
sessionVars == <<jar, gateLog>>
snapVars == <<published, reads>>

---------------------------------------------------------------------------
(* ChainMiddlewares.  A handler is the sequence of its stages, outermost   *)
(* first: the middleware m applied to the handler h is <<m>> \o h, and the *)
(* terminal handler is a sequence of one stage.  A middleware is a record  *)
(* [name, stops]: it leaves its name on ctx and then either invokes next   *)
(* or returns without doing so.                                            *)

MwNames == {"m1", "m2", "m3"}
Middlewares == [name : MwNames, stops : BOOLEAN]
Handler == <<[name |-> "H", stops |-> TRUE]>>

SeqsUpTo(S, n) == UNION {[1..k -> S] : k \in 0..n}

\* middlewares[i](chained)
Wrap(m, h) == <<m>> \o h

RECURSIVE ChainLoop(_, _, _)
ChainLoop(h, middlewares, i) ==
  IF i < 1 THEN h ELSE ChainLoop(Wrap(middlewares[i], h), middlewares, i - 1)

\* A chain built left to right: the last middleware ends up outermost.
RECURSIVE ChainLoopForward(_, _, _)
ChainLoopForward(h, middlewares, i) ==
  IF i > Len(middlewares) THEN h
  ELSE ChainLoopForward(Wrap(middlewares[i], h), middlewares, i + 1)

ChainMiddlewaresForward(handler, middlewares) ==
  IF Len(middlewares) = 0 THEN handler
  ELSE ChainLoopForward(handler, middlewares, 1)

ChainMiddlewares(handler, middlewares) ==
  IF Len(middlewares) = 0 THEN handler
  ELSE ChainLoop(handler, middlewares, Len(middlewares))

InitChain ==
  /\ mws \in SeqsUpTo(Middlewares, MaxMw)
  /\ chained = <<>> /\ pos = 0 /\ log = <<>>
  /\ pc = "build"
  /\ config = NoConfig /\ req = NoRequest /\ incoming = req
  /\ resp = FreshResponse
  /\ nextCalls = 0 /\ via = ""
  /\ PipeIdle
  /\ UIIdle /\ SessionIdle /\ SnapIdle

\* router.GET(path, lib.ChainMiddlewares(h, middlewares...))
BuildChain ==
  /\ pc = "build"
  /\ chained' = ChainMiddlewares(Handler, mws)
  /\ pos' = 1
  /\ pc' = "serve"
  /\ UNCHANGED <<config, incoming, req, resp, nextCalls, via, mws, log>>
  /\ UNCHANGED pipeVars
  /\ UNCHANGED <<uiVars, sessionVars, snapVars>>

\* The stage at pos is a middleware: it acts on ctx, then calls next or not.
CallMiddleware ==
  /\ pc = "serve"
  /\ pos < Len(chained)
  /\ log' = Append(log, chained[pos].name)
  /\ IF chained[pos].stops
       THEN pc' = "done" /\ pos' = pos
       ELSE pc' = "serve" /\ pos' = pos + 1
  /\ UNCHANGED <<config, incoming, req, resp, nextCalls, via, mws, chained>>
  /\ UNCHANGED pipeVars
  /\ UNCHANGED <<uiVars, sessionVars, snapVars>>

\* The stage at pos is the terminal handler.
CallHandler ==
  /\ pc = "serve"
  /\ pos = Len(chained)
  /\ log' = Append(log, chained[pos].name)
  /\ pc' = "done"
  /\ UNCHANGED <<config, incoming, req, resp, nextCalls, via, mws, chained, pos>>
  /\ UNCHANGED pipeVars
  /\ UNCHANGED <<uiVars, sessionVars, snapVars>>

NextChain == BuildChain \/ CallMiddleware \/ CallHandler

SpecChain == InitChain /\ [][NextChain]_vars

---------------------------------------------------------------------------
(* AdminAuthMiddleware and isPublicPath.                                   *)

isPublicPathAnyMethodMetrics(method, path) ==
  \/ path = "/metrics"
  \/ HasPrefix(path, "/v1/") /\ method = MethodPost
  \/ (HasPrefix(path, "/openai/") \/ HasPrefix(path, "/openai/v1/")) /\ method = MethodPost
  \/ (path = "/openai/models" \/ path = "/openai/v1/models") /\ method = MethodGet
  \/ HasPrefix(path, "/admin/login")
  \/ path = "/api/version" /\ method = MethodGet

isPublicPath(method, path) ==
  IF path = "/metrics" /\ method = MethodGet THEN TRUE
  ELSE IF HasPrefix(path, "/v1/") /\ method = MethodPost THEN TRUE
  ELSE IF (HasPrefix(path, "/openai/") \/ HasPrefix(path, "/openai/v1/"))
          /\ method = MethodPost THEN TRUE
  ELSE IF (path = "/openai/models" \/ path = "/openai/v1/models")
          /\ method = MethodGet THEN TRUE
  ELSE IF HasPrefix(path, "/admin/login") THEN TRUE
  ELSE IF path = "/api/version" /\ method = MethodGet THEN TRUE
  ELSE FALSE

\* strings.TrimSpace(config.AdminSecret) == ""
NeverDisabled(cfg) == FALSE

AuthDisabled(cfg) == TrimSpace(cfg.AdminSecret) = ""

\* token := strings.TrimSpace(auth[len("Bearer "):])
BearerToken(auth) == TrimSpace(SliceFrom(auth, Len("Bearer ")))

\* The Authorization branch: the prefix is tested on the trimmed, lowered
\* header, the token is cut from the header as it arrived.
BearerAccepted(cfg, auth) ==
  /\ auth # ""
  /\ HasPrefix(ToLower(TrimSpace(auth)), "bearer ")
  /\ BearerToken(auth) = cfg.AdminSecret

\* The cookie branch.
CookieAccepted(cfg, r) ==
  LET c == Cookie(r, cfg.AdminCookieName) IN c # "" /\ c = cfg.AdminSecret

wantsJSON(r) ==
  \/ Contains(ToLower(Peek(r, "Accept")), "application/json")
  \/ EqualFold(Peek(r, "X-Requested-With"), "XMLHttpRequest")
  \/ HasPrefix(r.path, "/api/")

RawLocation(path) == "/admin/login?next=" \o path

\* "/admin/login?next=" + url.QueryEscape(path)
RedirectLocation(path) == "/admin/login?next=" \o QueryEscape(path)

\* Lines 199-212: the answer to a request that presented no credential.
Reject(r, rs) ==
  IF wantsJSON(r) \/ HasPrefix(r.path, "/v1/") \/ HasPrefix(r.path, "/api/")
    THEN [next |-> FALSE,
          resp |-> SendError(rs, StatusUnauthorized, "admin authentication required"),
          via  |-> "unauthorized"]
    ELSE [next |-> FALSE,
          resp |-> SetStatusCode(
                     SetResponseHeader(rs, "Location", RedirectLocation(r.path)),
                     StatusFound),
          via  |-> "redirect"]

\* What one run of the handler does: whether next(ctx) is invoked, the
\* response it leaves, and the return statement it left through.
AdminAuthOutcome(cfg, r, rs) ==
  IF AuthDisabled(cfg)
    THEN [next |-> TRUE, resp |-> rs, via |-> "nosecret"]
  ELSE IF isPublicPath(r.method, r.path)
    THEN [next |-> TRUE, resp |-> rs, via |-> "public"]
  ELSE IF BearerAccepted(cfg, Peek(r, "Authorization"))
    THEN [next |-> TRUE, resp |-> rs, via |-> "bearer"]
  ELSE IF CookieAccepted(cfg, r)
    THEN [next |-> TRUE, resp |-> rs, via |-> "cookie"]
  ELSE Reject(r, rs)

AdminAuth ==
  /\ pc = "auth"
  /\ LET o == AdminAuthOutcome(config, req, resp) IN
       /\ nextCalls' = IF o.next THEN nextCalls + 1 ELSE nextCalls
       /\ resp' = o.resp
       /\ via' = o.via
  /\ pc' = "done"
  /\ UNCHANGED <<config, incoming, req>>
  /\ UNCHANGED chainVars
  /\ UNCHANGED pipeVars
  /\ UNCHANGED <<uiVars, sessionVars, snapVars>>

\* The requests and configurations the gate is run on.
AuthSecrets == {"", " ", "s3cr3t", "r s3cr3t"}
AuthCookieNames == {"bf_admin"}
AuthMethods == {"GET", "POST", "DELETE"}
AuthPaths == {"/", "/settings", "/metrics", "/metrics/x", "/v1/chat", "/v1",
              "/openai/chat", "/openai/v1/models", "/openai/models",
              "/admin/login", "/admin/loginx", "/admin/logout",
              "/api/version", "/api/keys"}
AuthAuthorizations == {"", "Bearer s3cr3t", "bEARER s3cr3t ", "\tBearer s3cr3t",
                       "\t\tBearer s3cr3t", "Bearer wrong", "Basic s3cr3t"}
AuthAccepts == {"", "text/html", "text/html, Application/JSON"}
AuthRequestedWith == {"", "xmlhttprequest"}
AuthCookies == {<<>>, <<<<"bf_admin", "s3cr3t">>>>, <<<<"bf_admin", "wrong">>>>,
                <<<<"other", "s3cr3t">>, <<"bf_admin", "r s3cr3t">>>>}

\* The header collection of a request: a header that was not sent is absent.
HeaderList(pairs) == SelectSeq(pairs, LAMBDA p : p[2] # "")

AuthRequest(m, p, a, acc, x, c) ==
  [method |-> m, path |-> p, uri |-> p,
   headers |-> HeaderList(<<<<"Authorization", a>>, <<"Accept", acc>>,
                            <<"X-Requested-With", x>>>>),
   cookies |-> c, body |-> ""]

InitAuth ==
  /\ config \in [AdminSecret : AuthSecrets, AdminCookieName : AuthCookieNames,
                 AllowedOrigins : {{}}, plugins : {<<>>}]
  /\ req \in {AuthRequest(m, p, a, acc, x, c) :
                m \in AuthMethods, p \in AuthPaths, a \in AuthAuthorizations,
                acc \in AuthAccepts, x \in AuthRequestedWith, c \in AuthCookies}
  /\ incoming = req
  /\ resp = FreshResponse
  /\ pc = "auth"
  /\ nextCalls = 0 /\ via = ""
  /\ ChainIdle
  /\ PipeIdle
  /\ UIIdle /\ SessionIdle /\ SnapIdle

NextAuth == AdminAuth

SpecAuth == InitAuth /\ [][NextAuth]_vars

---------------------------------------------------------------------------
(* encoding/json on the request bodies the interceptor is run on.  A body  *)
(* value is a Go map of keys to JSON values; a value is a string or the    *)
(* float NaN, which json.Marshal refuses.                                  *)

JString(v) == [t |-> "string", v |-> v]
NaN == [t |-> "float", v |-> "NaN"]

\* The keys of a body, in the order json.Marshal writes them (sorted).
SortedBodyKeys == <<"model", "trace_id">>

\* json.Unmarshal(bodyBytes, &requestBody) with requestBody an empty map:
\* an object fills the map, null sets it to nil, anything else is an error.
Unmarshal(bytes) ==
  CASE bytes = "{}"                      -> [ok |-> TRUE, value |-> MakeMap]
    [] bytes = "{\"model\":\"a\"}"       -> [ok |-> TRUE, value |-> GoMap([k \in {"model"} |-> JString("a")])]
    [] bytes = "{ \"model\" : \"a\" }"   -> [ok |-> TRUE, value |-> GoMap([k \in {"model"} |-> JString("a")])]
    [] bytes = "null"                    -> [ok |-> TRUE, value |-> NilMap]
    [] OTHER                             -> [ok |-> FALSE, value |-> MakeMap]

RECURSIVE MarshalEntries(_, _, _)
MarshalEntries(keys, kv, first) ==
  IF keys = <<>> THEN ""
  ELSE IF Head(keys) \in DOMAIN kv
    THEN (IF first THEN "" ELSE ",")
         \o "\"" \o Head(keys) \o "\":\"" \o kv[Head(keys)].v \o "\""
         \o MarshalEntries(Tail(keys), kv, FALSE)
    ELSE MarshalEntries(Tail(keys), kv, first)

\* json.Marshal(requestBody)
Marshal(m) ==
  IF m.nil THEN [ok |-> TRUE, bytes |-> "null"]
  ELSE IF \E k \in DOMAIN m.kv : m.kv[k] = NaN THEN [ok |-> FALSE, bytes |-> ""]
  ELSE [ok |-> TRUE, bytes |-> "{" \o MarshalEntries(SortedBodyKeys, m.kv, TRUE) \o "}"]

---------------------------------------------------------------------------
(* The plugins.  A plugin is [name, kind]; kind fixes what its             *)
(* TransportInterceptor returns for the headers and body it is given.      *)

GovernancePluginName == "governance"

PluginKinds == {"pass", "rename", "set", "trace", "fail", "failmod", "nil", "clear",
                "nan"}

PutKey(f, key, value) ==
  [k \in (DOMAIN f) \cup {key} |-> IF k = key THEN value ELSE f[k]]

DropKey(f, key) == [k \in (DOMAIN f) \ {key} |-> f[k]]

\* X-Old becomes X-New, with its value.
Renamed(h) ==
  IF "X-Old" \in DOMAIN h.kv
    THEN GoMap(PutKey(DropKey(h.kv, "X-Old"), "X-New", h.kv["X-Old"]))
    ELSE h

\* X-Old, when it is there, gets another value.
Overwritten(h) ==
  IF "X-Old" \in DOMAIN h.kv THEN GoMap(PutKey(h.kv, "X-Old", "9")) ELSE h

\* The body with one more field.
WithField(b, key, value) == GoMap(PutKey(b.kv, key, value))

\* plugin.TransportInterceptor(uri, headers, body): the returned headers,
\* the returned body and whether the returned error is non-nil.
TransportInterceptor(plugin, uri, h, b) ==
  CASE plugin.kind = "pass"    -> [headers |-> h, body |-> b, err |-> FALSE]
    [] plugin.kind = "rename"  -> [headers |-> Renamed(h), body |-> b, err |-> FALSE]
    [] plugin.kind = "set"     -> [headers |-> Overwritten(h), body |-> b, err |-> FALSE]
    [] plugin.kind = "trace"   -> [headers |-> h, body |-> WithField(b, "trace_id", JString("t1")), err |-> FALSE]
    [] plugin.kind = "fail"    -> [headers |-> NilMap, body |-> NilMap, err |-> TRUE]
    [] plugin.kind = "failmod" -> [headers |-> Renamed(h), body |-> WithField(b, "trace_id", JString("t1")), err |-> TRUE]
    [] plugin.kind = "nil"     -> [headers |-> NilMap, body |-> NilMap, err |-> FALSE]
    [] plugin.kind = "clear"   -> [headers |-> MakeMap, body |-> MakeMap, err |-> FALSE]
    [] plugin.kind = "nan"     -> [headers |-> h, body |-> WithField(b, "model", NaN), err |-> FALSE]

---------------------------------------------------------------------------
(* TransportInterceptorMiddleware.                                         *)

\* A test that any registered plugin satisfies.
hasAnyPlugin(ps) == Len(ps) > 0

\* The loop over plugins that looks for the governance plugin.
hasGovernance(ps) == \E i \in 1..Len(ps) : ps[i].name = GovernancePluginName

\* ctx.Request.Header.All() copied into the map headers: the last value of
\* a name wins.
RECURSIVE ParseHeaders(_, _)
ParseHeaders(list, m) ==
  IF list = <<>> THEN m
  ELSE ParseHeaders(Tail(list), PutKey(m, Head(list)[1], Head(list)[2]))

\* ctx.Request.Header.All() copied into originalHeaderNames.
HeaderNames(list) == [i \in 1..Len(list) |-> list[i][1]]

\* The loop body after a plugin returned: the headers the next plugin gets.
MergedHeaders(h, ret) ==
  IF ret.err THEN h
  ELSE IF ret.headers.nil THEN h
  ELSE GoMap([k \in (DOMAIN h.kv) \cup (DOMAIN ret.headers.kv) |->
                IF k \in DOMAIN ret.headers.kv THEN ret.headers.kv[k] ELSE h.kv[k]])

NextHeaders(h, ret) ==
  IF ret.err THEN h
  ELSE IF ~ret.headers.nil THEN ret.headers
  ELSE h

\* The loop body after a plugin returned: the body the next plugin gets.
BodyDespiteError(b, ret) == IF ~ret.body.nil THEN ret.body ELSE b

NextBody(b, ret) ==
  IF ret.err THEN b
  ELSE IF ~ret.body.nil THEN ret.body
  ELSE b

\* ctx.Request.Header.Del(name)
DelHeader(list, name) == SelectSeq(list, LAMBDA p : p[1] # name)

\* ctx.Request.Header.Set(key, value): the first header of that name takes
\* the value; a name that is not there is appended.
SetHeader(list, key, value) ==
  IF \E i \in 1..Len(list) : list[i][1] = key
    THEN LET first == CHOOSE i \in 1..Len(list) :
                        /\ list[i][1] = key
                        /\ \A j \in 1..(i - 1) : list[j][1] # key
         IN [list EXCEPT ![first] = <<key, value>>]
    ELSE Append(list, <<key, value>>)

\* for _, name := range originalHeaderNames { if absent from headers: Del }
RECURSIVE RemoveDropped(_, _, _)
RemoveDropped(list, names, h) ==
  IF names = <<>> THEN list
  ELSE RemoveDropped(IF Head(names) \in DOMAIN h.kv THEN list
                     ELSE DelHeader(list, Head(names)),
                     Tail(names), h)

\* The header names a plugin can leave in the map, in the order the model
\* walks the map (Go leaves the order of a range over a map open).
HeaderOrder == <<"Accept", "X-New", "X-Old">>

\* for key, value := range headers { Set(key, value) }
RECURSIVE SetAll(_, _, _)
SetAll(list, names, h) ==
  IF names = <<>> THEN list
  ELSE SetAll(IF Head(names) \in DOMAIN h.kv
                THEN SetHeader(list, Head(names), h.kv[Head(names)])
                ELSE list,
              Tail(names), h)

\* Lines 45-87: the plugin snapshot, the two pass-through tests, the header
\* map and the parsed body.
InterceptStart ==
  /\ pc = "intercept"
  /\ plugins' = config.plugins
  /\ LET ps == config.plugins
         parsed == Unmarshal(req.body)
     IN
       IF Len(ps) = 0
         THEN /\ nextCalls' = nextCalls + 1 /\ pc' = "done" /\ via' = "noplugins"
              /\ UNCHANGED <<headers, requestBody, originalHeaderNames, idx>>
       ELSE IF ~hasGovernance(ps)
         THEN /\ nextCalls' = nextCalls + 1 /\ pc' = "done" /\ via' = "nogovernance"
              /\ UNCHANGED <<headers, requestBody, originalHeaderNames, idx>>
       ELSE
         /\ headers' = GoMap(ParseHeaders(req.headers, EmptyMap))
         /\ originalHeaderNames' = HeaderNames(req.headers)
         /\ IF Len(req.body) > 0 /\ ~parsed.ok
              THEN /\ nextCalls' = nextCalls + 1 /\ pc' = "done" /\ via' = "badjson"
                   /\ UNCHANGED <<requestBody, idx>>
              ELSE /\ requestBody' = (IF Len(req.body) > 0 THEN parsed.value ELSE MakeMap)
                   /\ idx' = 1
                   /\ pc' = "plugins" /\ via' = via
                   /\ UNCHANGED nextCalls
  /\ UNCHANGED <<config, incoming, req, resp, calls>>
  /\ UNCHANGED chainVars
  /\ UNCHANGED <<uiVars, sessionVars, snapVars>>

\* Lines 90-104: one turn of the loop over plugins.
CallPlugin ==
  /\ pc = "plugins"
  /\ idx <= Len(plugins)
  /\ LET ret == TransportInterceptor(plugins[idx], req.uri, headers, requestBody) IN
       /\ headers' = NextHeaders(headers, ret)
       /\ requestBody' = NextBody(requestBody, ret)
       /\ calls' = Append(calls, [plugin |-> plugins[idx],
                                  inHeaders |-> headers, inBody |-> requestBody,
                                  ret |-> ret])
  /\ idx' = idx + 1
  /\ UNCHANGED <<config, incoming, req, resp, pc, nextCalls, via, plugins,
                 originalHeaderNames>>
  /\ UNCHANGED chainVars
  /\ UNCHANGED <<uiVars, sessionVars, snapVars>>

\* Whether the handler goes on to next(ctx) after json.Marshal returned.
ForwardsAlways(m) == TRUE

ForwardsAfterMarshal(m) == m.ok

\* Lines 106-126: the body is serialized and set, the headers reconciled,
\* and next(ctx) invoked; a body that does not serialize ends in a 500.
InterceptFinish ==
  /\ pc = "plugins"
  /\ idx > Len(plugins)
  /\ LET m == Marshal(requestBody) IN
       /\ resp' = IF m.ok THEN resp
                  ELSE SendError(resp, StatusInternalServerError,
                                 "TransportInterceptor: Failed to marshal request body")
       /\ IF ForwardsAfterMarshal(m)
            THEN /\ req' = [req EXCEPT
                       !.body = m.bytes,
                       !.headers = SetAll(RemoveDropped(req.headers, originalHeaderNames, headers),
                                          HeaderOrder, headers)]
                 /\ nextCalls' = nextCalls + 1
                 /\ via' = "intercepted"
            ELSE /\ via' = "marshal-error"
                 /\ UNCHANGED <<req, nextCalls>>
  /\ pc' = "done"
  /\ UNCHANGED <<config, incoming, plugins, headers, requestBody,
                 originalHeaderNames, idx, calls>>
  /\ UNCHANGED chainVars
  /\ UNCHANGED <<uiVars, sessionVars, snapVars>>

\* The plugin registries and requests the interceptor is run on.
Governance(kind) == [name |-> GovernancePluginName, kind |-> kind]
Logging(kind) == [name |-> "logging", kind |-> kind]

PluginPool == {Governance("pass"), Governance("fail"), Governance("rename"),
               Logging("trace"), Logging("failmod"), Logging("nil"),
               Logging("clear"), Logging("nan"), Logging("set")}

PipeHeaders == {<<>>,
                <<<<"X-Old", "1">>>>,
                <<<<"X-Old", "1">>, <<"Accept", "text/html">>>>,
                <<<<"X-Old", "1">>, <<"X-Old", "2">>>>}

PipeBodies == {"", "{}", "{\"model\":\"a\"}", "{ \"model\" : \"a\" }", "null",
               "[1]", "oops"}

InitPipe ==
  /\ config \in [AdminSecret : {""}, AdminCookieName : {"bf_admin"},
                 AllowedOrigins : {{}}, plugins : SeqsUpTo(PluginPool, MaxPlugins)]
  /\ req \in [method : {"POST"}, path : {"/v1/chat"}, uri : {"/v1/chat"},
              headers : PipeHeaders, cookies : {<<>>}, body : PipeBodies]
  /\ incoming = req
  /\ resp = FreshResponse
  /\ pc = "intercept"
  /\ nextCalls = 0 /\ via = ""
  /\ ChainIdle
  /\ PipeIdle
  /\ UIIdle /\ SessionIdle /\ SnapIdle

NextPipe == InterceptStart \/ CallPlugin \/ InterceptFinish

SpecPipe == InitPipe /\ [][NextPipe]_vars

---------------------------------------------------------------------------
(* CorsMiddleware.                                                         *)

\* The host of an origin: what follows "://" up to the port or the path.
RECURSIVE UpTo(_, _)
UpTo(s, stops) ==
  IF s = "" \/ Char(s, 1) \in stops THEN "" ELSE Char(s, 1) \o UpTo(Tail(s), stops)

OriginHost(origin) ==
  IF \E i \in 1..(Len(origin) - 2) : SubSeq(origin, i, i + 2) = "://"
    THEN UpTo(SliceFrom(origin, 2 + CHOOSE i \in 1..(Len(origin) - 2) :
                                      /\ SubSeq(origin, i, i + 2) = "://"
                                      /\ \A j \in 1..(i - 1) : SubSeq(origin, j, j + 2) # "://"),
              {":", "/"})
    ELSE ""

LoopbackHosts == {"localhost", "127.0.0.1"}

\* IsOriginAllowed(origin, allowedOrigins): a loopback host with any scheme
\* and any port, or an exact entry of AllowedOrigins.
IsOriginAllowed(origin, allowedOrigins) ==
  \/ OriginHost(origin) \in LoopbackHosts
  \/ origin \in allowedOrigins

\* Lines 23-27
SetCorsHeaders(rs, origin) ==
  SetResponseHeader(
    SetResponseHeader(
      SetResponseHeader(
        SetResponseHeader(
          SetResponseHeader(rs, "Access-Control-Allow-Origin", origin),
          "Access-Control-Allow-Methods", "GET, POST, PUT, DELETE, OPTIONS"),
        "Access-Control-Allow-Headers", "Content-Type, Authorization, X-Requested-With"),
      "Access-Control-Allow-Credentials", "true"),
    "Access-Control-Max-Age", "86400")

\* Lines 31-35
PreflightAlwaysOK(allowed) == StatusOK

PreflightStatus(allowed) == IF allowed THEN StatusOK ELSE StatusForbidden

CorsMiddleware ==
  /\ pc = "cors"
  /\ LET origin == Peek(req, "Origin")
         allowed == IsOriginAllowed(origin, config.AllowedOrigins)
         withHeaders == IF allowed THEN SetCorsHeaders(resp, origin) ELSE resp
     IN
       IF req.method = "OPTIONS"
         THEN /\ resp' = SetStatusCode(withHeaders, PreflightStatus(allowed))
              /\ via' = "preflight"
              /\ UNCHANGED nextCalls
         ELSE /\ resp' = withHeaders
              /\ via' = "next"
              /\ nextCalls' = nextCalls + 1
  /\ pc' = "done"
  /\ UNCHANGED <<config, incoming, req>>
  /\ UNCHANGED chainVars
  /\ UNCHANGED pipeVars
  /\ UNCHANGED <<uiVars, sessionVars, snapVars>>

CorsOrigins == {"", "http://localhost:3000", "https://127.0.0.1", "https://app.example",
                "https://evil.example", "http://localhost.evil.example"}
CorsAllowedOrigins == {{}, {"https://app.example"},
                       {"https://app.example", "https://other.example"}}
CorsMethods == {"GET", "POST", "PUT", "DELETE", "OPTIONS", "options"}

InitCors ==
  /\ config \in [AdminSecret : {""}, AdminCookieName : {"bf_admin"},
                 AllowedOrigins : CorsAllowedOrigins, plugins : {<<>>}]
  /\ req \in {[method |-> m, path |-> "/api/keys", uri |-> "/api/keys",
               headers |-> HeaderList(<<<<"Origin", o>>>>), cookies |-> <<>>,
               body |-> ""] : m \in CorsMethods, o \in CorsOrigins}
  /\ incoming = req
  /\ resp = FreshResponse
  /\ pc = "cors"
  /\ nextCalls = 0 /\ via = ""
  /\ ChainIdle
  /\ PipeIdle
  /\ UIIdle /\ SessionIdle /\ SnapIdle

NextCors == CorsMiddleware

SpecCors == InitCors /\ [][NextCors]_vars

---------------------------------------------------------------------------
(* UIHandler.serveDashboard.  The bundle uiContent maps the path of every  *)
(* embedded file to its bytes; a directory is not a file of it.            *)

StatusNotFound == 404

\* ctx.Response.StatusCode(): 200 until a status code is set.
StatusCode(rs) == IF rs.status = 0 THEN StatusOK ELSE rs.status

HasSuffix(s, suffix) ==
  Len(s) >= Len(suffix) /\ SubSeq(s, Len(s) - Len(suffix) + 1, Len(s)) = suffix

TrimSuffix(s, suffix) ==
  IF HasSuffix(s, suffix) THEN SubSeq(s, 1, Len(s) - Len(suffix)) ELSE s

\* The elements of a path between its slashes, empty ones included.
RECURSIVE Elements(_, _)
Elements(s, cur) ==
  IF s = "" THEN <<cur>>
  ELSE IF Char(s, 1) = "/" THEN <<cur>> \o Elements(Tail(s), "")
  ELSE Elements(Tail(s), cur \o Char(s, 1))

\* path.Clean, the walk over the elements: "" and "." are dropped, ".."
\* removes the element before it and cannot leave the root.
RECURSIVE CleanElements(_, _, _)
CleanElements(elems, out, rooted) ==
  IF elems = <<>> THEN out
  ELSE LET e == Head(elems) IN
    CleanElements(Tail(elems),
                  IF e = "" \/ e = "." THEN out
                  ELSE IF e = ".."
                    THEN (IF out # <<>> /\ out[Len(out)] # ".."
                            THEN SubSeq(out, 1, Len(out) - 1)
                          ELSE IF rooted THEN out
                          ELSE Append(out, ".."))
                  ELSE Append(out, e),
                  rooted)

RECURSIVE JoinPath(_)
JoinPath(elems) ==
  IF elems = <<>> THEN ""
  ELSE IF Len(elems) = 1 THEN elems[1]
  ELSE elems[1] \o "/" \o JoinPath(Tail(elems))

\* path.Clean(p)
Clean(p) ==
  IF p = "" THEN "."
  ELSE LET rooted == Char(p, 1) = "/"
           joined == JoinPath(CleanElements(Elements(p, ""), <<>>, rooted))
       IN IF rooted THEN "/" \o joined
          ELSE IF joined = "" THEN "." ELSE joined

\* filepath.Base(p) of a path that does not end in a slash.
Base(p) ==
  IF p = "" THEN "."
  ELSE LET elems == Elements(p, "") IN elems[Len(elems)]

\* filepath.Ext(p): the suffix of the last element from its last dot on.
Ext(p) ==
  LET b == Base(p) IN
    IF \E i \in 1..Len(b) : Char(b, i) = "."
      THEN SliceFrom(b, (CHOOSE i \in 1..Len(b) :
                           /\ Char(b, i) = "."
                           /\ \A j \in (i + 1)..Len(b) : Char(b, j) # ".") - 1)
      ELSE ""

\* mime.TypeByExtension(ext): the table of package mime; .txt is an entry of
\* the MIME table of the system.
TypeByExtension(ext) ==
  CASE ext = ".html" -> "text/html; charset=utf-8"
    [] ext = ".css"  -> "text/css; charset=utf-8"
    [] ext = ".js"   -> "text/javascript; charset=utf-8"
    [] ext = ".json" -> "application/json"
    [] ext = ".svg"  -> "image/svg+xml"
    [] ext = ".txt"  -> "text/plain; charset=utf-8"
    [] OTHER         -> ""

\* h.uiContent.ReadFile(name)
ReadFile(content, name) ==
  IF name \in DOMAIN content
    THEN [ok |-> TRUE, data |-> content[name]]
    ELSE [ok |-> FALSE, data |-> ""]

\* A handler that looks up a path ending in .txt as it is.
NoTxtRewrite(cleanPath) == cleanPath

\* Lines 57-64: /{page}.txt is looked up as /{page}/index.txt.
TxtRewrite(cleanPath) ==
  IF HasSuffix(cleanPath, ".txt")
    THEN LET trimmed == TrimSuffix(cleanPath, ".txt")
             basePath == IF trimmed = "/" \/ trimmed = "" THEN "/index" ELSE trimmed
         IN basePath \o "/index.txt"
    ELSE cleanPath

\* Lines 67-71: the path in the bundle.
BundlePath(cleanPath) ==
  IF cleanPath = "/" THEN "ui/index.html" ELSE "ui" \o cleanPath

\* A lookup that falls back to the index files for every miss.
ResolveAlwaysFallingBack(content, cleanPath) ==
  IF ReadFile(content, cleanPath).ok
    THEN [found |-> TRUE, path |-> cleanPath, via |-> "exact"]
  ELSE IF ReadFile(content, cleanPath \o "/index.html").ok
    THEN [found |-> TRUE, path |-> cleanPath \o "/index.html", via |-> "dir-index"]
  ELSE IF ReadFile(content, "ui/index.html").ok
    THEN [found |-> TRUE, path |-> "ui/index.html", via |-> "root-index"]
  ELSE [found |-> FALSE, path |-> cleanPath, via |-> "no-index"]

\* Lines 74-108: the file that answers cleanPath, if any.
Resolve(content, cleanPath) ==
  LET hasExtension == Contains(Base(cleanPath), ".") IN
    IF ReadFile(content, cleanPath).ok
      THEN [found |-> TRUE, path |-> cleanPath, via |-> "exact"]
    ELSE IF hasExtension
      THEN [found |-> FALSE, path |-> cleanPath, via |-> "no-asset"]
    ELSE IF ReadFile(content, cleanPath \o "/index.html").ok
      THEN [found |-> TRUE, path |-> cleanPath \o "/index.html", via |-> "dir-index"]
    ELSE IF ReadFile(content, "ui/index.html").ok
      THEN [found |-> TRUE, path |-> "ui/index.html", via |-> "root-index"]
    ELSE [found |-> FALSE, path |-> cleanPath, via |-> "no-index"]

\* Lines 111-116
ContentType(cleanPath) ==
  IF TypeByExtension(Ext(cleanPath)) = ""
    THEN "application/octet-stream"
    ELSE TypeByExtension(Ext(cleanPath))

\* Lines 119-125
CacheControl(cleanPath) ==
  IF HasPrefix(cleanPath, "ui/_next/static/") THEN "public, max-age=31536000, immutable"
  ELSE IF Ext(cleanPath) = ".html" THEN "no-cache"
  ELSE "public, max-age=3600"

\* What serveDashboard leaves on the response for a request path.
ServeDashboardOutcome(content, requestPath, rs) ==
  LET r == Resolve(content, BundlePath(TxtRewrite(Clean(requestPath)))) IN
    IF ~r.found
      THEN [resp |-> [SetStatusCode(rs, StatusNotFound) EXCEPT
                        !.body = IF r.via = "no-asset"
                                   THEN "404 - Static asset not found: " \o requestPath
                                   ELSE "404 - File not found"],
            via |-> r.via]
      ELSE [resp |-> [SetResponseHeader(
                        SetResponseHeader(rs, "Content-Type", ContentType(r.path)),
                        "Cache-Control", CacheControl(r.path))
                      EXCEPT !.body = ReadFile(content, r.path).data],
            via |-> r.via]

serveDashboard ==
  /\ pc = "dashboard"
  /\ LET o == ServeDashboardOutcome(uiContent, req.path, resp) IN
       /\ resp' = o.resp
       /\ via' = o.via
  /\ pc' = "done"
  /\ UNCHANGED <<config, incoming, req, nextCalls>>
  /\ UNCHANGED <<chainVars, pipeVars, uiVars, sessionVars, snapVars>>

\* The bundles and request paths the handler is run on; the bytes of a file
\* are its own.
UIFiles == {"ui/index.html", "ui/app.js", "ui/notes.txt", "ui/docs/index.html",
            "ui/docs/index.txt", "ui/_next/static/main.css", "ui/font.woff2"}
Bytes(name) == "<" \o name \o ">"
UIPaths == {"/", "/index.html", "/app.js", "/notes.txt", "/docs", "/docs/",
            "/docs.txt", "/docs/index.txt", "/docs/index.html",
            "/_next/static/main.css", "/font.woff2", "/unknown", "/unknown.js",
            "/docs/../app.js", "/.txt"}

InitUI ==
  /\ uiContent \in {[name \in files |-> Bytes(name)] : files \in SUBSET UIFiles}
  /\ req \in {[method |-> "GET", path |-> p, uri |-> p, headers |-> <<>>,
               cookies |-> <<>>, body |-> ""] : p \in UIPaths}
  /\ incoming = req
  /\ config = NoConfig
  /\ resp = FreshResponse
  /\ pc = "dashboard"
  /\ nextCalls = 0 /\ via = ""
  /\ ChainIdle /\ PipeIdle /\ SessionIdle /\ SnapIdle

NextUI == serveDashboard

SpecUI == InitUI /\ [][NextUI]_vars

---------------------------------------------------------------------------
(* UIHandler.loginSubmit and UIHandler.logout.                             *)

StatusBadRequest == 400
StatusServiceUnavailable == 503

\* h.config == nil
NilConfig == [nil |-> TRUE]

\* The first byte or escape of a form value, decoded: "+" is a space, %XX
\* the byte it names, anything else itself.
EscapeLen(s) ==
  IF Len(s) >= 3 /\ Char(s, 1) = "%"
       /\ SubSeq(s, 1, 3) \in {"%2F", "%3F", "%26", "%3D", "%3A", "%25", "%2B"}
    THEN 3 ELSE 1

DecodeFirst(s) ==
  IF EscapeLen(s) = 3
    THEN CASE SubSeq(s, 1, 3) = "%2F" -> "/"
           [] SubSeq(s, 1, 3) = "%3F" -> "?"
           [] SubSeq(s, 1, 3) = "%26" -> "&"
           [] SubSeq(s, 1, 3) = "%3D" -> "="
           [] SubSeq(s, 1, 3) = "%3A" -> ":"
           [] SubSeq(s, 1, 3) = "%25" -> "%"
           [] SubSeq(s, 1, 3) = "%2B" -> "+"
    ELSE IF Char(s, 1) = "+" THEN " " ELSE Char(s, 1)

RECURSIVE DecodeArg(_)
DecodeArg(s) ==
  IF s = "" THEN "" ELSE DecodeFirst(s) \o DecodeArg(SliceFrom(s, EscapeLen(s)))

\* The pieces of s between the occurrences of the byte sep.
RECURSIVE Fields(_, _, _)
Fields(s, sep, cur) ==
  IF s = "" THEN <<cur>>
  ELSE IF Char(s, 1) = sep THEN <<cur>> \o Fields(Tail(s), sep, "")
  ELSE Fields(Tail(s), sep, cur \o Char(s, 1))

\* One key=value pair of a form body, decoded.
ParseArg(pair) ==
  IF \E i \in 1..Len(pair) : Char(pair, i) = "="
    THEN LET eq == CHOOSE i \in 1..Len(pair) :
                     /\ Char(pair, i) = "="
                     /\ \A j \in 1..(i - 1) : Char(pair, j) # "="
         IN <<DecodeArg(SubSeq(pair, 1, eq - 1)), DecodeArg(SliceFrom(pair, eq))>>
    ELSE <<DecodeArg(pair), "">>

\* ctx.PostArgs().Peek(key): the value of the first pair with that key.
PostArgsPeek(body, key) ==
  LET pairs == Fields(body, "&", "")
      args == [i \in 1..Len(pairs) |-> ParseArg(pairs[i])]
  IN IF \E i \in 1..Len(args) : args[i][1] = key
       THEN args[CHOOSE i \in 1..Len(args) :
                   /\ args[i][1] = key
                   /\ \A j \in 1..(i - 1) : args[j][1] # key][2]
       ELSE ""

\* fasthttp.Cookie as the handlers fill it: a cookie has no expiry and no
\* max-age until they are set.
SessionCookie(key, value) ==
  [key |-> key, value |-> value, path |-> "/", httpOnly |-> TRUE,
   expire |-> "unlimited", maxAge |-> 0]

ExpiredCookie(key) ==
  [key |-> key, value |-> "", path |-> "/", httpOnly |-> FALSE,
   expire |-> "1970-01-01T00:00:00Z", maxAge |-> -1]

\* ctx.Response.Header.SetCookie(&c)
SetCookie(rs, c) == [rs EXCEPT !.cookies = Append(rs.cookies, c)]

\* A comparison that ignores the whitespace around the password.
PasswordMatchesTrimmed(cfg, password) == TrimSpace(password) = TrimSpace(cfg.AdminSecret)

\* Line 168
PasswordMatches(cfg, password) == password = cfg.AdminSecret

\* Lines 176-179
LoginCookieName(cfg) ==
  IF cfg.AdminCookieName = "" THEN "bf_admin" ELSE cfg.AdminCookieName

\* Lines 187-189
LoginTarget(next) ==
  IF next = "" \/ Contains(next, "://") THEN "/" ELSE next

\* What loginSubmit leaves on the response.
LoginOutcome(cfg, r, rs) ==
  IF cfg = NilConfig \/ TrimSpace(cfg.AdminSecret) = ""
    THEN [resp |-> SendError(rs, StatusServiceUnavailable, "admin auth not configured"),
          via |-> "unconfigured"]
  ELSE LET password == PostArgsPeek(r.body, "password")
           next == PostArgsPeek(r.body, "next")
       IN
    IF password = ""
      THEN [resp |-> SendError(rs, StatusBadRequest, "password is required"),
            via |-> "no-password"]
    ELSE IF ~PasswordMatches(cfg, password)
      THEN [resp |-> [SetStatusCode(
                        SetResponseHeader(rs, "Content-Type", "text/html; charset=utf-8"),
                        StatusUnauthorized)
                      EXCEPT !.body = "<html><body><p>Invalid password</p><a href=\"/admin/login\">Try again</a></body></html>"],
            via |-> "invalid-password"]
    ELSE [resp |-> SetStatusCode(
                     SetResponseHeader(
                       SetCookie(rs, SessionCookie(LoginCookieName(cfg), cfg.AdminSecret)),
                       "Location", LoginTarget(next)),
                     StatusFound),
          via |-> "logged-in"]

\* Lines 196-199
LogoutCookieName(cfg) ==
  IF cfg # NilConfig /\ TrimSpace(cfg.AdminCookieName) # ""
    THEN cfg.AdminCookieName
    ELSE "bf_admin"

\* What logout leaves on the response.
LogoutOutcome(cfg, rs) ==
  SetStatusCode(
    SetResponseHeader(SetCookie(rs, ExpiredCookie(LogoutCookieName(cfg))),
                      "Location", "/admin/login"),
    StatusFound)

loginSubmit ==
  /\ pc = "login"
  /\ LET o == LoginOutcome(config, req, resp) IN
       /\ resp' = o.resp
       /\ via' = o.via
  /\ pc' = "done"
  /\ UNCHANGED <<config, incoming, req, nextCalls>>
  /\ UNCHANGED <<chainVars, pipeVars, uiVars, sessionVars, snapVars>>

logout ==
  /\ pc = "logout"
  /\ resp' = LogoutOutcome(config, resp)
  /\ via' = "logged-out"
  /\ pc' = "done"
  /\ UNCHANGED <<config, incoming, req, nextCalls>>
  /\ UNCHANGED <<chainVars, pipeVars, uiVars, sessionVars, snapVars>>

\* The configurations and forms the two handlers are run on.
LoginSecrets == {"", " ", "s3cr3t"}
LoginCookieNames == {"bf_admin", "sid", "", " "}
LoginPasswords == {"", " ", "s3cr3t", " s3cr3t", "wrong"}
LoginNexts == {"", "/", "/settings", "https://evil.example/", "//evil.example/",
               "/go?u=http://a"}

\* The body a browser posts for the login form.
Form(password, next) ==
  "password=" \o QueryEscape(password) \o "&next=" \o QueryEscape(next)

LoginBodies ==
  {Form(p, n) : p \in LoginPasswords, n \in LoginNexts}
    \cup {"", "password=s3cr3t", "next=/settings&password=s3cr3t&password=wrong"}

LoginConfigs ==
  {NilConfig} \cup [AdminSecret : LoginSecrets, AdminCookieName : LoginCookieNames,
                    AllowedOrigins : {{}}, plugins : {<<>>}]

InitLogin ==
  /\ config \in LoginConfigs
  /\ \/ /\ pc = "login"
        /\ req \in {[method |-> "POST", path |-> "/admin/login", uri |-> "/admin/login",
                     headers |-> <<>>, cookies |-> <<>>, body |-> b] : b \in LoginBodies}
     \/ /\ pc = "logout"
        /\ req = [method |-> "GET", path |-> "/admin/logout", uri |-> "/admin/logout",
                  headers |-> <<>>, cookies |-> <<>>, body |-> ""]
  /\ incoming = req
  /\ resp = FreshResponse
  /\ nextCalls = 0 /\ via = ""
  /\ ChainIdle /\ PipeIdle /\ UIIdle /\ SessionIdle /\ SnapIdle

NextLogin == loginSubmit \/ logout

SpecLogin == InitLogin /\ [][NextLogin]_vars

---------------------------------------------------------------------------
(* A browser session against the login routes and the gate: the browser    *)
(* posts the login form, keeps the cookies the responses set, presents     *)
(* them on the requests that follow, and may log out.                      *)

\* The browser takes a cookie of a response into its jar.  The cookie that
\* logout sends stays in the jar with its empty value.
StoreCookie(cookies, c) ==
  IF \E i \in 1..Len(cookies) : cookies[i][1] = c.key
    THEN [i \in 1..Len(cookies) |->
            IF cookies[i][1] = c.key THEN <<c.key, c.value>> ELSE cookies[i]]
    ELSE Append(cookies, <<c.key, c.value>>)

RECURSIVE StoreCookies(_, _)
StoreCookies(cookies, cs) ==
  IF cs = <<>> THEN cookies
  ELSE StoreCookies(StoreCookie(cookies, Head(cs)), Tail(cs))

SessionPasswords == {"s3cr3t", "k3y"}
SessionPaths == {"/settings", "/api/keys"}

\* router.POST("/admin/login", h.loginSubmit)
SessionLogin ==
  /\ pc = "anonymous"
  /\ \E password \in SessionPasswords :
       LET r == [method |-> "POST", path |-> "/admin/login", uri |-> "/admin/login",
                 headers |-> <<>>, cookies |-> jar, body |-> Form(password, "/")]
           o == LoginOutcome(config, r, FreshResponse)
       IN /\ req' = r
          /\ resp' = o.resp
          /\ via' = o.via
          /\ jar' = StoreCookies(jar, o.resp.cookies)
          /\ pc' = IF o.via = "logged-in" THEN "loggedin" ELSE "anonymous"
  /\ UNCHANGED <<config, incoming, nextCalls, gateLog>>
  /\ UNCHANGED <<chainVars, pipeVars, uiVars, snapVars>>

\* A request for a path that is not public, with the cookies of the jar,
\* met by AdminAuthMiddleware.
SessionRequest ==
  /\ pc \in {"loggedin", "loggedout"}
  /\ Len(gateLog) < MaxSessionRequests
  /\ \E path \in SessionPaths :
       LET r == [method |-> "GET", path |-> path, uri |-> path,
                 headers |-> <<>>, cookies |-> jar, body |-> ""]
           o == AdminAuthOutcome(config, r, FreshResponse)
       IN /\ req' = r
          /\ resp' = o.resp
          /\ via' = o.via
          /\ nextCalls' = IF o.next THEN nextCalls + 1 ELSE nextCalls
          /\ gateLog' = Append(gateLog, [phase |-> pc, path |-> path, next |-> o.next])
  /\ UNCHANGED <<config, incoming, pc, jar>>
  /\ UNCHANGED <<chainVars, pipeVars, uiVars, snapVars>>

\* router.GET("/admin/logout", h.logout)
SessionLogout ==
  /\ pc = "loggedin"
  /\ LET r == [method |-> "GET", path |-> "/admin/logout", uri |-> "/admin/logout",
               headers |-> <<>>, cookies |-> jar, body |-> ""]
         rs == LogoutOutcome(config, FreshResponse)
     IN /\ req' = r
        /\ resp' = rs
        /\ jar' = StoreCookies(jar, rs.cookies)
  /\ via' = "logged-out"
  /\ pc' = "loggedout"
  /\ UNCHANGED <<config, incoming, nextCalls, gateLog>>
  /\ UNCHANGED <<chainVars, pipeVars, uiVars, snapVars>>

InitSession ==
  /\ config \in [AdminSecret : SessionPasswords, AdminCookieName : LoginCookieNames,
                 AllowedOrigins : {{}}, plugins : {<<>>}]
  /\ req = NoRequest /\ incoming = req
  /\ resp = FreshResponse
  /\ pc = "anonymous"
  /\ nextCalls = 0 /\ via = ""
  /\ jar = <<>> /\ gateLog = <<>>
  /\ ChainIdle /\ PipeIdle /\ UIIdle /\ SnapIdle

NextSession == SessionLogin \/ SessionRequest \/ SessionLogout

SpecSession == InitSession /\ [][NextSession]_vars

---------------------------------------------------------------------------
(* The middlewares while the shared Config is replaced.  A writer          *)
(* publishes a new version at any moment; AdminAuthMiddleware reads the    *)
(* fields of config where its statements name them (lines 168, 186, 194),  *)
(* one step per read; TransportInterceptorMiddleware reads the plugin      *)
(* registry once (line 47).                                                *)

\* The version config holds now.
CurrentVersion == Len(published)

ReadOf(field, line) ==
  [field |-> field, line |-> line, version |-> CurrentVersion, value |-> config[field]]

\* The writer: a new Config becomes the shared one.
PublishConfig ==
  /\ pc # "done"
  /\ published # <<>>
  /\ Len(published) < MaxVersions
  /\ \E c \in [AdminSecret : {"s3cr3t", "n3w"}, AdminCookieName : {"bf_admin", "sid"},
               AllowedOrigins : {{}},
               plugins : {<<>>, <<Governance("pass")>>,
                          <<Governance("rename"), Logging("trace")>>}] :
       /\ c # config
       /\ config' = c
       /\ published' = Append(published, c)
  /\ UNCHANGED <<incoming, req, resp, pc, nextCalls, via, reads>>
  /\ UNCHANGED <<chainVars, pipeVars, uiVars, sessionVars>>

\* The run ends: next(ctx) is invoked or a response written.
GateLeaves(o) ==
  /\ nextCalls' = IF o.next THEN nextCalls + 1 ELSE nextCalls
  /\ resp' = o.resp
  /\ via' = o.via
  /\ pc' = "done"

GateGoesOn(to) ==
  /\ pc' = to
  /\ UNCHANGED <<resp, nextCalls, via>>

\* Line 168 reads config.AdminSecret; lines 174-183 follow without a read.
GateReadSecretAt168 ==
  /\ pc = "gate168"
  /\ reads' = Append(reads, ReadOf("AdminSecret", 168))
  /\ IF AuthDisabled(config)
       THEN GateLeaves([next |-> TRUE, resp |-> resp, via |-> "nosecret"])
     ELSE IF isPublicPath(req.method, req.path)
       THEN GateLeaves([next |-> TRUE, resp |-> resp, via |-> "public"])
     ELSE IF Peek(req, "Authorization") # ""
             /\ HasPrefix(ToLower(TrimSpace(Peek(req, "Authorization"))), "bearer ")
       THEN GateGoesOn("gate186")
     ELSE GateGoesOn("gate194name")
  /\ UNCHANGED <<config, incoming, req, published>>
  /\ UNCHANGED <<chainVars, pipeVars, uiVars, sessionVars>>

\* Line 186 reads config.AdminSecret for the bearer token.
GateReadSecretAt186 ==
  /\ pc = "gate186"
  /\ reads' = Append(reads, ReadOf("AdminSecret", 186))
  /\ IF BearerToken(Peek(req, "Authorization")) = config.AdminSecret
       THEN GateLeaves([next |-> TRUE, resp |-> resp, via |-> "bearer"])
       ELSE GateGoesOn("gate194name")
  /\ UNCHANGED <<config, incoming, req, published>>
  /\ UNCHANGED <<chainVars, pipeVars, uiVars, sessionVars>>

\* Line 194 reads config.AdminCookieName for the cookie lookup.
GateReadCookieNameAt194 ==
  /\ pc = "gate194name"
  /\ reads' = Append(reads, ReadOf("AdminCookieName", 194))
  /\ IF Cookie(req, config.AdminCookieName) # ""
       THEN GateGoesOn("gate194secret")
       ELSE GateLeaves(Reject(req, resp))
  /\ UNCHANGED <<config, incoming, req, published>>
  /\ UNCHANGED <<chainVars, pipeVars, uiVars, sessionVars>>

\* Line 194 then reads config.AdminSecret to compare the cookie with it.
GateReadSecretAt194 ==
  /\ pc = "gate194secret"
  /\ reads' = Append(reads, ReadOf("AdminSecret", 194))
  /\ LET c == Cookie(req, reads[Len(reads)].value) IN
       IF c = config.AdminSecret
         THEN GateLeaves([next |-> TRUE, resp |-> resp, via |-> "cookie"])
         ELSE GateLeaves(Reject(req, resp))
  /\ UNCHANGED <<config, incoming, req, published>>
  /\ UNCHANGED <<chainVars, pipeVars, uiVars, sessionVars>>

SnapAuthorizations == {"", "Bearer n3w"}
SnapCookies == {<<>>, <<<<"bf_admin", "n3w">>>>, <<<<"sid", "s3cr3t">>>>}
SnapPaths == {"/settings", "/api/keys", "/admin/login"}

InitSnap ==
  /\ \/ /\ pc = "gate168"
        /\ config \in [AdminSecret : {"", "s3cr3t"}, AdminCookieName : {"bf_admin"},
                       AllowedOrigins : {{}}, plugins : {<<>>}]
        /\ req \in {AuthRequest("GET", p, a, "", "", c) :
                      p \in SnapPaths, a \in SnapAuthorizations, c \in SnapCookies}
     \/ /\ pc = "intercept"
        /\ config \in [AdminSecret : {"s3cr3t"}, AdminCookieName : {"bf_admin"},
                       AllowedOrigins : {{}},
                       plugins : {<<>>, <<Governance("pass"), Logging("set")>>}]
        /\ req \in [method : {"POST"}, path : {"/v1/chat"}, uri : {"/v1/chat"},
                    headers : {<<<<"X-Old", "1">>>>}, cookies : {<<>>},
                    body : {"{\"model\":\"a\"}", "oops"}]
  /\ incoming = req
  /\ resp = FreshResponse
  /\ nextCalls = 0 /\ via = ""
  /\ published = <<config>> /\ reads = <<>>
  /\ ChainIdle /\ PipeIdle /\ UIIdle /\ SessionIdle

NextSnap ==
  \/ PublishConfig
  \/ GateReadSecretAt168 \/ GateReadSecretAt186
  \/ GateReadCookieNameAt194 \/ GateReadSecretAt194
  \/ InterceptStart \/ CallPlugin \/ InterceptFinish

SpecSnap == InitSnap /\ [][NextSnap]_vars

---------------------------------------------------------------------------
(* All handlers together.                                                  *)

Init ==
  \/ InitChain \/ InitAuth \/ InitPipe \/ InitCors
  \/ InitUI \/ InitLogin \/ InitSession \/ InitSnap

Next ==
  \/ BuildChain \/ CallMiddleware \/ CallHandler
  \/ AdminAuth
  \/ InterceptStart \/ CallPlugin \/ InterceptFinish
  \/ CorsMiddleware
  \/ serveDashboard
  \/ loginSubmit \/ logout
  \/ SessionLogin \/ SessionRequest \/ SessionLogout
  \/ PublishConfig
  \/ GateReadSecretAt168 \/ GateReadSecretAt186
  \/ GateReadCookieNameAt194 \/ GateReadSecretAt194

Spec == Init /\ [][Next]_vars

---------------------------------------------------------------------------
(* Properties of ChainMiddlewares (checked under SpecChain).               *)

\* The first middleware of the list that does not invoke next, 0 if none.
FirstStop(ms) ==
  IF \E i \in 1..Len(ms) : ms[i].stops
    THEN CHOOSE i \in 1..Len(ms) : ms[i].stops /\ \A j \in 1..(i - 1) : ~ms[j].stops
    ELSE 0

NamesOf(ms) == [i \in 1..Len(ms) |-> ms[i].name]

\* What a request must leave on ctx: m1..mk in list order, mk the first
\* middleware that short-circuits, and H after all of them if none does.
ExpectedLog(ms) ==
  IF FirstStop(ms) = 0 THEN NamesOf(ms) \o <<"H">>
  ELSE SubSeq(NamesOf(ms), 1, FirstStop(ms))

IsPrefix(s, t) == Len(s) <= Len(t) /\ SubSeq(t, 1, Len(s)) = s

\* C1: the handler ChainMiddlewares returns runs m1, m2, ..., mn in list
\* order and then H; once some mi does not invoke next, nothing after it
\* runs; if none short-circuits H runs exactly once, after all of them; and
\* for an empty list the result is H itself.
C1_ChainOrder ==
  /\ pc \in {"serve", "done"} => IsPrefix(log, ExpectedLog(mws))
  /\ pc = "done" => log = ExpectedLog(mws)
  /\ (pc \in {"serve", "done"} /\ mws = <<>>) => chained = Handler

C1_Witness ==
  /\ pc = "done"
  /\ NamesOf(mws) = <<"m2", "m1", "m3">>
  /\ FirstStop(mws) = 0
  /\ log = <<"m2", "m1", "m3", "H">>

---------------------------------------------------------------------------
(* Properties of AdminAuthMiddleware (checked under SpecAuth).             *)

\* The table of public paths of the specification.
PublicPathTable ==
  { [methods |-> {"GET"},  match |-> "exact",  path |-> "/metrics"],
    [methods |-> {"POST"}, match |-> "prefix", path |-> "/v1/"],
    [methods |-> {"POST"}, match |-> "prefix", path |-> "/openai/"],
    [methods |-> {"POST"}, match |-> "prefix", path |-> "/openai/v1/"],
    [methods |-> {"GET"},  match |-> "exact",  path |-> "/openai/models"],
    [methods |-> {"GET"},  match |-> "exact",  path |-> "/openai/v1/models"],
    [methods |-> AuthMethods, match |-> "prefix", path |-> "/admin/login"],
    [methods |-> {"GET"},  match |-> "exact",  path |-> "/api/version"] }

TablePublic(method, path) ==
  \E row \in PublicPathTable :
    /\ method \in row.methods
    /\ IF row.match = "exact" THEN path = row.path ELSE HasPrefix(path, row.path)

\* The request carries `Authorization: Bearer <token>`: the header, trimmed,
\* starts with "bearer " in any letter case, and the rest, trimmed, is the
\* secret.
PresentsBearer(r, secret) ==
  LET t == TrimSpace(Peek(r, "Authorization")) IN
    /\ HasPrefix(ToLower(t), "bearer ")
    /\ TrimSpace(SliceFrom(t, Len("bearer "))) = secret

\* The request carries a cookie of that name whose value is the secret.
PresentsCookie(r, name, secret) ==
  \E i \in 1..Len(r.cookies) : r.cookies[i] = <<name, secret>>

NoCredentials(r) == Peek(r, "Authorization") = "" /\ r.cookies = <<>>

\* C2: with a non-empty AdminSecret, a request that is not public and
\* presents neither the secret as bearer token nor the secret in the cookie
\* AdminCookieName is never forwarded and ends with the gate's 401 or 302.
C2_UnauthenticatedNeverForwarded ==
  ( /\ pc = "done"
    /\ config.AdminSecret # ""
    /\ ~TablePublic(incoming.method, incoming.path)
    /\ ~PresentsBearer(incoming, config.AdminSecret)
    /\ ~PresentsCookie(incoming, config.AdminCookieName, config.AdminSecret) )
  => /\ nextCalls = 0
     /\ resp.status \in {StatusUnauthorized, StatusFound}

\* C3: with a non-empty AdminSecret, a non-public request is forwarded when
\* it presents the secret as bearer token or in the cookie, either alone.
C3_EitherCredentialSuffices ==
  ( /\ pc = "done"
    /\ config.AdminSecret # ""
    /\ ~TablePublic(incoming.method, incoming.path)
    /\ \/ PresentsBearer(incoming, config.AdminSecret)
       \/ PresentsCookie(incoming, config.AdminCookieName, config.AdminSecret) )
  => nextCalls = 1

JSONWanting(r) ==
  \/ Contains(ToLower(Peek(r, "Accept")), "application/json")
  \/ ToLower(Peek(r, "X-Requested-With")) = "xmlhttprequest"
  \/ HasPrefix(r.path, "/api/")

\* C5: a request the gate does not forward gets the structured 401 exactly
\* when it wants JSON or its path is under /v1/ or /api/, and otherwise a
\* 302 to /admin/login?next=<the URL-encoded path>; GET /settings is sent
\* to /admin/login?next=%2Fsettings.
C5_FailureShape ==
  (pc = "done" /\ nextCalls = 0) =>
    IF \/ JSONWanting(incoming)
       \/ HasPrefix(incoming.path, "/v1/")
       \/ HasPrefix(incoming.path, "/api/")
      THEN /\ resp.status = StatusUnauthorized
           /\ resp.body = "admin authentication required"
           /\ "Location" \notin DOMAIN resp.headers
      ELSE /\ resp.status = StatusFound
           /\ "Location" \in DOMAIN resp.headers
           /\ resp.headers["Location"] = "/admin/login?next=" \o QueryEscape(incoming.path)
           /\ incoming.path = "/settings"
                => resp.headers["Location"] = "/admin/login?next=%2Fsettings"

C5_Witness ==
  /\ pc = "done"
  /\ config.AdminSecret = "s3cr3t"
  /\ incoming.method = "GET" /\ incoming.path = "/settings"
  /\ Peek(incoming, "Accept") = "text/html"
  /\ NoCredentials(incoming)
  /\ resp.status = StatusFound
  /\ resp.headers["Location"] = "/admin/login?next=%2Fsettings"

\* C6: with an empty AdminSecret every request is forwarded, whatever its
\* method, path and credentials, and the gate writes nothing of its own.
C6_EmptySecretForwardsAll ==
  (pc = "done" /\ config.AdminSecret = "") =>
    /\ nextCalls = 1
    /\ resp = FreshResponse
    /\ req = incoming

C6_Witness ==
  /\ pc = "done"
  /\ config.AdminSecret = ""
  /\ incoming.method = "DELETE" /\ incoming.path = "/api/keys"
  /\ NoCredentials(incoming)
  /\ nextCalls = 1

---------------------------------------------------------------------------
(* Properties of TransportInterceptorMiddleware (checked under SpecPipe).  *)

\* The header map and the body the first plugin is given.
IncomingHeaders == GoMap(ParseHeaders(incoming.headers, EmptyMap))
IncomingBody ==
  IF incoming.body = "" THEN MakeMap ELSE Unmarshal(incoming.body).value

\* Sequential composition of the transforms of ps on (h, b): every plugin
\* is given what the one before it returned, and what it returns replaces
\* both values, a returned nil leaving the value as it was.
RECURSIVE Composition(_, _, _, _)
Composition(ps, uri, h, b) ==
  IF ps = <<>> THEN [headers |-> h, body |-> b]
  ELSE LET ret == TransportInterceptor(Head(ps), uri, h, b) IN
         Composition(Tail(ps), uri,
                     IF ret.headers.nil THEN h ELSE ret.headers,
                     IF ret.body.nil THEN b ELSE ret.body)

\* The plugins among the first n whose invocation returned no error.
Succeeded(n) ==
  LET RECURSIVE Keep(_)
      Keep(i) == IF i > n THEN <<>>
                 ELSE (IF calls[i].ret.err THEN <<>> ELSE <<plugins[i]>>) \o Keep(i + 1)
  IN Keep(1)

\* The working headers and body after the i-th invocation.
After(i) ==
  IF i < Len(calls)
    THEN [headers |-> calls[i + 1].inHeaders, body |-> calls[i + 1].inBody]
    ELSE [headers |-> headers, body |-> requestBody]

\* C7 as stated: after a plugin that succeeded, the working headers and
\* body are the values that plugin returned.
C7_ReturnedValuesReplace ==
  \A i \in 1..Len(calls) :
    ~calls[i].ret.err =>
      /\ After(i).headers = calls[i].ret.headers
      /\ After(i).body = calls[i].ret.body

\* C7, amended: the plugins run in registration order, each on the headers
\* and body the plugins before it left, and the result is the sequential
\* composition of the transforms; what a plugin that succeeded returns
\* replaces the working value (no merge), except that a returned nil map
\* leaves the working value as it was.
C7_SequentialComposition ==
  /\ \A i \in 1..Len(calls) :
       LET before == Composition(Succeeded(i - 1), incoming.uri,
                                 IncomingHeaders, IncomingBody)
       IN /\ calls[i].plugin = plugins[i]
          /\ calls[i].inHeaders = before.headers
          /\ calls[i].inBody = before.body
          /\ ~calls[i].ret.err =>
               /\ After(i).headers = (IF calls[i].ret.headers.nil
                                        THEN calls[i].inHeaders
                                        ELSE calls[i].ret.headers)
               /\ After(i).body = (IF calls[i].ret.body.nil
                                     THEN calls[i].inBody
                                     ELSE calls[i].ret.body)
  /\ Len(calls) > 0 =>
       LET all == Composition(Succeeded(Len(calls)), incoming.uri,
                              IncomingHeaders, IncomingBody)
       IN headers = all.headers /\ requestBody = all.body
  /\ (pc = "done" /\ via = "intercepted") =>
       /\ Len(calls) = Len(plugins)
       /\ req.body = Marshal(requestBody).bytes

C7_Witness ==
  /\ pc = "done" /\ via = "intercepted" /\ nextCalls = 1
  /\ plugins = <<Governance("rename"), Logging("trace")>>
  /\ incoming.headers = <<<<"X-Old", "1">>>>
  /\ incoming.body = "{\"model\":\"a\"}"
  /\ headers = GoMap([k \in {"X-New"} |-> "1"])
  /\ req.body = "{\"model\":\"a\",\"trace_id\":\"t1\"}"

\* The pipeline without the plugins that failed.
WithoutFailed ==
  Composition(Succeeded(Len(calls)), incoming.uri, IncomingHeaders, IncomingBody)

SomePluginFailed == \E i \in 1..Len(calls) : calls[i].ret.err

\* What C8 says of the working values: they are those of the run of the
\* loop without the failing plugins, and the plugin after a failing one is
\* given what the failing one was given.
FailureIsolated ==
  /\ headers = WithoutFailed.headers
  /\ requestBody = WithoutFailed.body
  /\ \A i \in 1..Len(calls) :
       calls[i].ret.err =>
         /\ After(i).headers = calls[i].inHeaders
         /\ After(i).body = calls[i].inBody

C9_MarshalFailureIsFatal ==
  pc = "done" =>
    /\ (via \in {"intercepted", "marshal-error"} /\ ~Marshal(requestBody).ok)
         => nextCalls = 0 /\ resp.status = StatusInternalServerError
    /\ nextCalls = 0
         => /\ Len(calls) = Len(plugins) /\ Len(plugins) > 0
            /\ ~Marshal(requestBody).ok
            /\ resp.status = StatusInternalServerError
    /\ nextCalls = 1 => resp = FreshResponse
    /\ nextCalls <= 1

C9_Witness ==
  /\ pc = "done"
  /\ plugins = <<Governance("pass"), Logging("nan")>>
  /\ incoming.body = "{}"
  /\ nextCalls = 0
  /\ resp.status = StatusInternalServerError
  /\ req = incoming

\* The header names the request carries.
NamesCarried(r) == {r.headers[i][1] : i \in 1..Len(r.headers)}

\* C16: after the pipeline has run, the header names of the forwarded
\* request are exactly the keys of the final header mapping, every header
\* carries the value the mapping gives its name, and a name the request
\* arrived with that the mapping no longer has is gone.
C16_HeadersMatchFinalMapping ==
  (pc = "done" /\ via = "intercepted") =>
    /\ NamesCarried(req) = DOMAIN headers.kv
    /\ \A i \in 1..Len(req.headers) :
         req.headers[i][2] = headers.kv[req.headers[i][1]]
    /\ \A n \in NamesCarried(incoming) :
         n \notin DOMAIN headers.kv => n \notin NamesCarried(req)

\* Line 91 calls TransportInterceptor on every plugin of the snapshot: each
\* registered plugin exposes the transform.
ExposesInterception(p) == p.kind \in PluginKinds

InvokedOnceInOrder ==
  /\ Len(calls) = Len(plugins)
  /\ \A i \in 1..Len(calls) : calls[i].plugin = plugins[i]

PassedThrough ==
  /\ calls = <<>>
  /\ req = incoming
  /\ nextCalls = 1
  /\ resp = FreshResponse

\* json.Unmarshal into the map reports an error for this non-empty body.
Unparseable(bytes) == bytes # "" /\ ~Unmarshal(bytes).ok

\* C17 as stated: the request passes through unmodified with no plugin
\* invoked exactly when the snapshot is empty or no plugin of it exposes the
\* transform; with a plugin that exposes it and a body that parses, every
\* plugin is invoked exactly once, in registration order.
C17_SkipIffNoCapability ==
  pc = "done" =>
    LET capable == \E i \in 1..Len(plugins) : ExposesInterception(plugins[i]) IN
      /\ (calls = <<>>) <=> (plugins = <<>> \/ ~capable)
      /\ (capable /\ ~Unparseable(incoming.body)) => InvokedOnceInOrder

\* C17, amended: the request passes through unmodified with no plugin
\* invoked exactly when the snapshot is empty, or holds no plugin named
\* governance, or the body is non-empty and json.Unmarshal rejects it; in
\* every other case each plugin of the snapshot is invoked exactly once, in
\* registration order.
C17_SkipIffNoGovernance ==
  pc = "done" =>
    LET governed == \E i \in 1..Len(plugins) : plugins[i].name = GovernancePluginName
        skipped == plugins = <<>> \/ ~governed \/ Unparseable(incoming.body)
    IN /\ plugins = config.plugins
       /\ skipped => PassedThrough
       /\ ~skipped => InvokedOnceInOrder /\ Len(calls) > 0

C17_Witness ==
  /\ pc = "done"
  /\ plugins = <<Logging("trace"), Logging("set")>>
  /\ incoming.body = "{\"model\":\"a\"}"
  /\ PassedThrough

\* The text is a JSON object.
IsJSONObject(bytes) == Unmarshal(bytes).ok /\ ~Unmarshal(bytes).value.nil

\* C18: a non-empty body that is not a JSON object is forwarded as it
\* arrived: no plugin is invoked, headers and body bytes are unchanged, next
\* is invoked exactly once and no error response is written.
C18_NonObjectBodyPassesThrough ==
  (pc = "done" /\ incoming.body # "" /\ ~IsJSONObject(incoming.body)) =>
    /\ calls = <<>>
    /\ req.headers = incoming.headers
    /\ req.body = incoming.body
    /\ nextCalls = 1
    /\ resp = FreshResponse

\* Every plugin that ran returned the headers and the body it was given.
AllReturnedUnchanged ==
  \A i \in 1..Len(calls) :
    /\ ~calls[i].ret.err
    /\ calls[i].ret.headers = calls[i].inHeaders
    /\ calls[i].ret.body = calls[i].inBody

\* C20: when interception runs and every plugin returns headers and body
\* unchanged, the forwarded request has the headers and the body of the
\* incoming one; a request that arrived with an empty body leaves with one.
C20_IdentityPipelinePreserves ==
  (pc = "done" /\ via = "intercepted" /\ AllReturnedUnchanged) =>
    /\ req.headers = incoming.headers
    /\ req.body = incoming.body

---------------------------------------------------------------------------
(* Properties of CorsMiddleware (checked under SpecCors).                  *)

CorsHeaderNames == {"Access-Control-Allow-Origin", "Access-Control-Allow-Methods",
                    "Access-Control-Allow-Headers", "Access-Control-Allow-Credentials",
                    "Access-Control-Max-Age"}

OriginAllowed == IsOriginAllowed(Peek(incoming, "Origin"), config.AllowedOrigins)

\* C10: OPTIONS is answered 200 for an allowed origin and 403 otherwise and
\* never forwarded; every other method is forwarded, allowed or not; the CORS
\* headers are on the response exactly when the origin is allowed, and
\* Allow-Origin is then the Origin of the request.
C10_CorsPreflight ==
  pc = "done" =>
    /\ incoming.method = "OPTIONS" =>
         /\ nextCalls = 0
         /\ resp.status = (IF OriginAllowed THEN StatusOK ELSE StatusForbidden)
    /\ incoming.method # "OPTIONS" => nextCalls = 1 /\ resp.status = 0
    /\ OriginAllowed =>
         /\ DOMAIN resp.headers = CorsHeaderNames
         /\ resp.headers["Access-Control-Allow-Origin"] = Peek(incoming, "Origin")
    /\ ~OriginAllowed => DOMAIN resp.headers = {}

C10_Witness ==
  /\ pc = "done"
  /\ incoming.method = "OPTIONS"
  /\ Peek(incoming, "Origin") = "https://evil.example"
  /\ ~OriginAllowed
  /\ resp.status = StatusForbidden
  /\ nextCalls = 0

---------------------------------------------------------------------------
(* Properties of serveDashboard (checked under SpecUI).                    *)

\* The bundle entry whose path without the root prefix is the request path.
OwnEntry == "ui" \o incoming.path

HasExtension(name) == Contains(Base(name), ".")

\* The response is the file: its bytes, 200, and the type of its extension.
ServedVerbatim(name) ==
  /\ StatusCode(resp) = StatusOK
  /\ resp.body = uiContent[name]
  /\ "Content-Type" \in DOMAIN resp.headers
  /\ resp.headers["Content-Type"] = ContentType(name)

AnsweredNotFound ==
  /\ StatusCode(resp) = StatusNotFound
  /\ \A name \in DOMAIN uiContent : resp.body # uiContent[name]

\* C11 as stated: every bundle entry with an extension, .txt included, is
\* served at its own path with its bytes and the content type of its
\* extension.
C11_EveryAssetServedVerbatim ==
  (pc = "done" /\ OwnEntry \in DOMAIN uiContent /\ HasExtension(OwnEntry)) =>
    ServedVerbatim(OwnEntry)

\* The entry a request path ending in .txt is answered from.
TxtTarget(path) ==
  LET trimmed == SubSeq(path, 1, Len(path) - Len(".txt")) IN
    "ui" \o (IF trimmed = "/" \/ trimmed = "" THEN "/index" ELSE trimmed) \o "/index.txt"

\* C11, amended: every bundle entry with an extension other than .txt is
\* served at its own path with its bytes and the content type of its
\* extension; a request path ending in .txt is answered from the entry
\* <base>/index.txt, or 404 without it, never from the entry of that path.
C11_AssetServedVerbatimExceptTxt ==
  (pc = "done" /\ OwnEntry \in DOMAIN uiContent /\ HasExtension(OwnEntry)) =>
    IF ~HasSuffix(incoming.path, ".txt") THEN ServedVerbatim(OwnEntry)
    ELSE IF TxtTarget(incoming.path) \in DOMAIN uiContent
      THEN ServedVerbatim(TxtTarget(incoming.path))
    ELSE AnsweredNotFound

C11_Witness ==
  /\ pc = "done"
  /\ incoming.path = "/_next/static/main.css"
  /\ OwnEntry \in DOMAIN uiContent
  /\ resp.body = Bytes("ui/_next/static/main.css")
  /\ resp.headers["Content-Type"] = "text/css; charset=utf-8"
  /\ StatusCode(resp) = StatusOK

\* The bundle path the handler looks up for the request.
LookedUp == BundlePath(TxtRewrite(Clean(incoming.path)))

Serves(name) == StatusCode(resp) = StatusOK /\ resp.body = uiContent[name]

\* C12: the bundle path is served if it is there; without it, a path whose
\* last segment has a dot is a 404 with no fallback, and a path without a
\* dot is answered by <path>/index.html, else by the root index.html, else
\* 404.
C12_LookupOrder ==
  pc = "done" =>
    IF LookedUp \in DOMAIN uiContent THEN Serves(LookedUp)
    ELSE IF HasExtension(LookedUp) THEN AnsweredNotFound
    ELSE IF (LookedUp \o "/index.html") \in DOMAIN uiContent
      THEN Serves(LookedUp \o "/index.html")
    ELSE IF "ui/index.html" \in DOMAIN uiContent THEN Serves("ui/index.html")
    ELSE AnsweredNotFound

C12_Witness ==
  /\ pc = "done"
  /\ incoming.path = "/unknown"
  /\ "ui/index.html" \in DOMAIN uiContent
  /\ StatusCode(resp) = StatusOK
  /\ resp.body = Bytes("ui/index.html")

---------------------------------------------------------------------------
(* Properties of loginSubmit (checked under SpecLogin).                    *)

LoginRequest == incoming.method = "POST" /\ incoming.path = "/admin/login"

\* The value the form carries for a field.
Submitted(field) == PostArgsPeek(incoming.body, field)

\* No admin secret is configured.
Unconfigured == config = NilConfig \/ TrimSpace(config.AdminSecret) = ""

\* C13: POST /admin/login answers 503 without a configured AdminSecret,
\* else 400 for an empty password, else 401 for a password that is not the
\* AdminSecret, else 302; the auth cookie (value AdminSecret, Path=/,
\* HTTP-only, no expiry) is set exactly when the password equals a
\* configured AdminSecret, so never on a 503, 400 or 401.
C13_LoginChecksInOrder ==
  (pc = "done" /\ LoginRequest) =>
    LET password == Submitted("password")
        matches == ~Unconfigured /\ password = config.AdminSecret
    IN /\ resp.status =
            (IF Unconfigured THEN StatusServiceUnavailable
             ELSE IF password = "" THEN StatusBadRequest
             ELSE IF password # config.AdminSecret THEN StatusUnauthorized
             ELSE StatusFound)
       /\ (resp.cookies # <<>>) <=> matches
       /\ matches =>
            /\ Len(resp.cookies) = 1
            /\ resp.cookies[1].value = config.AdminSecret
            /\ resp.cookies[1].path = "/"
            /\ resp.cookies[1].httpOnly
            /\ resp.cookies[1].expire = "unlimited"
            /\ resp.cookies[1].maxAge = 0
       /\ resp.status \in {StatusServiceUnavailable, StatusBadRequest, StatusUnauthorized}
            => resp.cookies = <<>>

C13_Witness ==
  /\ pc = "done" /\ LoginRequest
  /\ config # NilConfig
  /\ config.AdminSecret = "s3cr3t"
  /\ Submitted("password") = "s3cr3t"
  /\ resp.status = StatusFound
  /\ Len(resp.cookies) = 1
  /\ resp.cookies[1].value = "s3cr3t"

\* The target leaves the site: it names a scheme and a host, or it is a
\* network-path reference (//host/...) that takes the scheme of the page.
External(target) == Contains(target, "://") \/ HasPrefix(target, "//")

\* C14: after a successful login Location is the submitted next, with / in
\* place of an empty next or one containing "://", and so the redirect
\* never sends the browser to an external target.
C14_RedirectNeverExternal ==
  (pc = "done" /\ LoginRequest /\ resp.status = StatusFound) =>
    /\ "Location" \in DOMAIN resp.headers
    /\ resp.headers["Location"] =
         (IF Submitted("next") = "" \/ Contains(Submitted("next"), "://")
            THEN "/" ELSE Submitted("next"))
    /\ ~External(resp.headers["Location"])

---------------------------------------------------------------------------
(* Properties of a browser session (checked under SpecSession).            *)

\* C19: whatever AdminCookieName is (empty and whitespace-only included),
\* login, gate and logout use one cookie name: after a successful login a
\* non-public request with the cookies the browser holds is forwarded, and
\* after logout such a request is no longer forwarded.
C19_CookieNameAgreement ==
  \A i \in 1..Len(gateLog) :
    /\ gateLog[i].phase = "loggedin" => gateLog[i].next
    /\ gateLog[i].phase = "loggedout" => ~gateLog[i].next

---------------------------------------------------------------------------
(* Properties under replacement of the Config (checked under SpecSnap).    *)

GateVias == {"nosecret", "public", "bearer", "cookie", "unauthorized", "redirect"}

\* The run of the gate ended as it ends under the Config version v, read
\* as a whole.
DecidedBy(v) ==
  LET o == AdminAuthOutcome(published[v], incoming, FreshResponse) IN
    /\ (nextCalls = 1) = o.next
    /\ resp = o.resp

\* C15: while the Config is replaced, every value one run of a middleware
\* reads comes from one published version, so the outcome of a request is
\* the outcome under one version and never a mix of two.
C15_OneSnapshotPerRun ==
  /\ \A i, j \in 1..Len(reads) : reads[i].version = reads[j].version
  /\ (pc = "done" /\ via \in GateVias) =>
       \E v \in 1..Len(published) : DecidedBy(v)
  /\ (pc \in {"plugins", "done"} /\ via \notin GateVias /\ published # <<>>) =>
       /\ \E v \in 1..Len(published) : plugins = published[v].plugins
       /\ \A i \in 1..Len(calls) : calls[i].plugin = plugins[i]

=============================================================================
